---- MODULE Spec2Model ----
(***************************************************************************)
(* Invoice automation (lambda_package/src): the orchestration pipeline of  *)
(* lambda_handler, the mailbox scan of EmailProcessor, and the invoice     *)
(* numbering that S3Utils derives from the archived file names.            *)
(*                                                                         *)
(* Text is modelled as a sequence of one-character strings, so that        *)
(* split, lower, strip, int() and the {:03d} format are computed the way   *)
(* the Python code computes them.  Time is counted in ticks of 30 minutes  *)
(* since 00:00 UTC of day 0.                                               *)
(***************************************************************************)
EXTENDS Integers, Sequences, FiniteSets, TLC

\* An Optional value is a sequence of at most one element: Nothing is None.
Nothing == <<>>
Some(x) == <<x>>

\* ------------------------------------------------------------------ bounds
\* Messages ever delivered to the inbox.
MaxMsgs == 2
\* Invocations of lambda_handler.
MaxRuns == 2
\* Advances of the wall clock, of twelve hours each.
MaxClock == 1
\* Objects put in the bucket for the stand-alone lookup, and the length of
\* the names that are enumerated in full.
MaxKeys == 3
MaxSuffixLen == 1

\* ------------------------------------------------------------- text helpers
\* The characters that occur in the modelled keys and paths, in code point
\* order (Python compares str by code point).
Ascii ==
  << " ", ".", "/", "0", "1", "2", "3", "4", "5", "6", "7", "8", "9",
     "B", "I", "_", "a", "b", "c", "d", "e", "f", "h", "i", "l", "m", "n",
     "o", "p", "r", "s", "t", "v" >>

Ord(ch) == CHOOSE i \in DOMAIN Ascii : Ascii[i] = ch

Digits == <<"0", "1", "2", "3", "4", "5", "6", "7", "8", "9">>

IsDigit(ch) == \E i \in DOMAIN Digits : Digits[i] = ch

DigitValue(ch) == (CHOOSE i \in DOMAIN Digits : Digits[i] = ch) - 1

\* str < str
StrLess(a, b) ==
  \/ \E i \in DOMAIN b :
        /\ i <= Len(a)
        /\ \A j \in 1..(i - 1) : a[j] = b[j]
        /\ a[i] # b[i]
        /\ Ord(a[i]) < Ord(b[i])
  \/ /\ Len(a) < Len(b)
     /\ \A j \in DOMAIN a : a[j] = b[j]

\* s.startswith(p)
StartsWith(s, p) == Len(s) >= Len(p) /\ SubSeq(s, 1, Len(p)) = p

\* s.split(sep)[-1] for a non-empty separator: what follows the last
\* occurrence of sep, the whole of s when sep does not occur.
SplitLast(s, sep) ==
  LET n == Len(sep)
      at == {i \in 1..(Len(s) - n + 1) : SubSeq(s, i, i + n - 1) = sep}
  IN IF at = {} THEN s
     ELSE LET i == CHOOSE x \in at : \A y \in at : y <= x
          IN SubSeq(s, i + n, Len(s))

\* s.split(sep)[0]: what precedes the first occurrence of sep.
SplitFirst(s, sep) ==
  LET n == Len(sep)
      at == {i \in 1..(Len(s) - n + 1) : SubSeq(s, i, i + n - 1) = sep}
  IN IF at = {} THEN s
     ELSE LET i == CHOOSE x \in at : \A y \in at : x <= y
          IN SubSeq(s, 1, i - 1)

\* int(tok) succeeds: over the modelled characters, a non-empty run of
\* decimal digits (a letter, a dot or nothing raises ValueError).
IntParses(tok) == Len(tok) > 0 /\ \A i \in DOMAIN tok : IsDigit(tok[i])

RECURSIVE IntOf(_)
IntOf(tok) ==
  IF Len(tok) = 0 THEN 0
  ELSE 10 * IntOf(SubSeq(tok, 1, Len(tok) - 1)) + DigitValue(tok[Len(tok)])

RECURSIVE DecimalOf(_)
\* str(n) for n >= 0
DecimalOf(n) ==
  IF n < 10 THEN <<Digits[n + 1]>>
  ELSE Append(DecimalOf(n \div 10), Digits[(n % 10) + 1])

RECURSIVE ZeroPad(_, _)
ZeroPad(s, width) == IF Len(s) >= width THEN s ELSE ZeroPad(<<"0">> \o s, width)

\* f"{n:03d}"
Format03d(n) == ZeroPad(DecimalOf(n), 3)

\* ------------------------------------------------------ s3_utils.S3Utils
\* "cellstrat_invoices/"
KeyDir ==
  << "c", "e", "l", "l", "s", "t", "r", "a", "t", "_",
     "i", "n", "v", "o", "i", "c", "e", "s", "/" >>

\* "Bhavesh Invoice "
FileStem ==
  << "B", "h", "a", "v", "e", "s", "h", " ",
     "I", "n", "v", "o", "i", "c", "e", " " >>

\* ".pdf"
PdfExt == <<".", "p", "d", "f">>

\* The default prefix of list_invoice_files.
ListPrefix == KeyDir \o FileStem

\* file.split(" ")[-1].split(".")[0]
NumberToken(file) == SplitFirst(SplitLast(file, <<" ">>), <<".">>)

\* The keys list_objects_v2 returns for the prefix, over all pages.
ListedKeys(objects) == {k \in objects : StartsWith(k, ListPrefix)}

\* The (number, file) pairs that survive the try/except of the filter loop.
ValidFiles(objects) ==
  {<<IntOf(NumberToken(k)), k>> : k \in {f \in ListedKeys(objects) : IntParses(NumberToken(f))}}

\* A sort that orders the files as text instead of by the extracted number.
PairLessLexicographic(p, q) == StrLess(p[2], q[2])

\* Tuple order of sorted(valid_files): by number, then by file name.
PairLess(p, q) == p[1] < q[1] \/ (p[1] = q[1] /\ StrLess(p[2], q[2]))

RECURSIVE SortedPairs(_)
SortedPairs(pairs) ==
  IF pairs = {} THEN <<>>
  ELSE LET lo == CHOOSE p \in pairs : \A q \in pairs \ {p} : PairLess(p, q)
       IN <<lo>> \o SortedPairs(pairs \ {lo})

\* list_invoice_files(): the valid files, sorted by number.
list_invoice_files(objects) ==
  LET sorted == SortedPairs(ValidFiles(objects))
  IN [i \in DOMAIN sorted |-> sorted[i][2]]

\* A lookup that answers 0 for an empty list, so that numbering starts at 1.
get_last_invoice_number_or_zero(objects) ==
  LET files == list_invoice_files(objects)
  IN IF Len(files) = 0 THEN [raised |-> "", value |-> 0]
     ELSE [raised |-> "", value |-> IntOf(NumberToken(files[Len(files)]))]

\* get_last_invoice_number(): [-1] of an empty list raises IndexError.
get_last_invoice_number(objects) ==
  LET files == list_invoice_files(objects)
  IN IF Len(files) = 0 THEN [raised |-> "IndexError", value |-> 0]
     ELSE [raised |-> "", value |-> IntOf(NumberToken(files[Len(files)]))]

\* upload_file(local_file_path, s3_key): put_object either stores the object
\* or raises, and the except clause turns that into False; nothing is raised.
upload_file(objects, s3_key, put_ok) ==
  IF put_ok THEN [objects |-> objects \cup {s3_key}, ok |-> TRUE]
  ELSE [objects |-> objects, ok |-> FALSE]

\* --------------------------------------- invoice_generator.InvoiceGenerator
\* "/tmp/"
TmpDir == <<"/", "t", "m", "p", "/">>

\* A file name that carries the number without the zero padding.
generate_invoice_unpadded(invoice_number) ==
  TmpDir \o FileStem \o DecimalOf(invoice_number) \o PdfExt

\* generate_invoice: output_filename = f"/tmp/Bhavesh Invoice {n:03d}.pdf"
generate_invoice(invoice_number) ==
  TmpDir \o FileStem \o Format03d(invoice_number) \o PdfExt

\* ------------------------------------------------ email_processor, clock
TicksPerDay == 24 * 2

\* Asia/Kolkata is UTC+05:30.
ISTOffset == (5 * 2) + 1

\* datetime.now(UTC).replace(hour=0, minute=0, second=0, microsecond=0)
StartOfDay(t) == t - (t % TicksPerDay)

\* The calendar day of an instant in UTC: what strftime("%d-%b-%Y") keeps.
DayOf(t) == t \div TicksPerDay

\* email_date.astimezone(ist).strftime("%d %B %Y"): the calendar day in IST.
FormatDateIST(t) == [day |-> (t + ISTOffset) \div TicksPerDay]

LowerChar(ch) ==
  CASE ch = "A" -> "a"
    [] ch = "B" -> "b"
    [] ch = "E" -> "e"
    [] ch = "L" -> "l"
    [] ch = "O" -> "o"
    [] ch = "V" -> "v"
    [] OTHER -> ch

\* str.lower()
Lower(s) == [i \in DOMAIN s |-> LowerChar(s[i])]

RECURSIVE Strip(_)
\* str.strip()
Strip(s) ==
  IF Len(s) > 0 /\ s[1] = " " THEN Strip(Tail(s))
  ELSE IF Len(s) > 0 /\ s[Len(s)] = " " THEN Strip(SubSeq(s, 1, Len(s) - 1))
  ELSE s

\* os.getenv("APPROVED_SENDERS").split(","): "aL, bo"
ApprovedSendersEnv == << <<"a", "L">>, <<" ", "b", "o">> >>

\* lambda_function.APPROVED_SENDERS
APPROVED_SENDERS == [i \in DOMAIN ApprovedSendersEnv |-> Strip(ApprovedSendersEnv[i])]

\* EmailProcessor.__init__: self.approved_senders
approved_senders == [i \in DOMAIN APPROVED_SENDERS |-> Lower(APPROVED_SENDERS[i])]

\* A sender check that lets every sender through.
IsApprovedAlways(from_email) == TRUE

\* from_email in self.approved_senders
IsApproved(from_email) == \E i \in DOMAIN approved_senders : approved_senders[i] = from_email

\* email_date < self.scan_start_time
IsOlder(email_date, start) == email_date < start

\* ------------------------------------------------------------------ state
\* Execution environments of the function; each imports lambda_function once
\* (a cold start) and then serves invocations one at a time.
Containers == {"c1", "c2"}

\* The container that serves the invocations that follow one another.
WarmContainer == "c1"

\* Raw From addresses of arriving mail: "Al" is approved up to case, "Ev" is not.
Senders == { <<"A", "l">>, <<"E", "v">> }

\* The date the oracle reads out of a body that states one.
StatedDate == [day |-> 30]

\* InvoiceParams the extraction service can answer with.
OracleAnswers ==
  { [is_invoice |-> FALSE, invoice_amount |-> Nothing, invoice_date |-> Nothing],
    [is_invoice |-> TRUE, invoice_amount |-> Some(25000), invoice_date |-> Nothing],
    [is_invoice |-> TRUE, invoice_amount |-> Some(25000), invoice_date |-> Some(StatedDate)] }

\* Key of the archived invoice with this number.
InvoiceKey(n) == KeyDir \o FileStem \o Format03d(n) \o PdfExt

\* Contents of the bucket before the first run.
InitialStores ==
  { {},
    { ListPrefix \o <<"a", "b", "c">> \o PdfExt },
    { InvoiceKey(7), InvoiceKey(12), ListPrefix \o <<"a", "b", "c">> \o PdfExt } }

VARIABLES
  now,              \* wall clock, in ticks
  clock_steps,      \* advances of the clock so far
  inbox,            \* the INBOX: messages in sequence-number order
  store,            \* keys of the objects in the bucket
  scan_start_time,  \* per container: EmailProcessor.scan_start_time, Nothing before import
  frame,            \* per container: the locals of lambda_handler
  runs,             \* invocations so far
  rendered,         \* log of generate_invoice calls that returned
  sent,             \* log of messages handed to SMTP
  uploaded,         \* log of upload_file calls, with their outcome
  lookup            \* result of a stand-alone get_last_invoice_number call

vars ==
  << now, clock_steps, inbox, store, scan_start_time, frame, runs,
     rendered, sent, uploaded, lookup >>

\* What an invocation has returned or raised; statusCode 0 while it has not.
NoResult == [statusCode |-> 0, processed |-> 0, raised |-> ""]

IdleFrame ==
  [ pc |-> "idle", run |-> 0, invoked_at |-> 0, scanned_emails |-> <<>>,
    last |-> 0, next_invoice_number |-> 0, verdicts |-> <<>>,
    invoice_params_list |-> <<>>, output_invoice_paths |-> <<>>,
    delivered |-> 0, result |-> NoResult, overlapped |-> {} ]

Active(c) == frame[c].pc # "idle"

\* ----------------------------------------------- EmailProcessor.scan_emails
\* imap.search(None, '(UNSEEN SINCE "dd-Mon-yyyy")'): sequence numbers of the
\* unread messages dated on or after the day of scan_start_time.
SearchHits(box, start) ==
  {i \in DOMAIN box : ~box[i].seen /\ DayOf(box[i].date) >= DayOf(start)}

RECURSIVE MatchingFrom(_, _, _)
\* The for loop over message_numbers, from sequence number i on.
MatchingFrom(box, start, i) ==
  IF i > Len(box) THEN <<>>
  ELSE LET from_email == Lower(box[i].From)
           rest == MatchingFrom(box, start, i + 1)
       IN IF i \notin SearchHits(box, start) THEN rest
          ELSE IF ~IsApproved(from_email) THEN rest
          ELSE IF IsOlder(box[i].date, start) THEN rest
          ELSE << [ from_email |-> from_email,
                    date |-> FormatDateIST(box[i].date),
                    body_text |-> i ] >> \o rest

\* scan_emails(): the matching emails; fetching RFC822 from the selected
\* INBOX sets \Seen on every message the search returned.
scan_emails(box, start) ==
  [ matching |-> MatchingFrom(box, start, 1),
    box |-> [i \in DOMAIN box |->
               IF i \in SearchHits(box, start) THEN [box[i] EXCEPT !.seen = TRUE]
               ELSE box[i]] ]

\* ------------------------------------------------------------ environment
\* Everything but the bucket: 20:00 UTC of day 0, nothing imported or run.
InitEnv ==
  /\ now = 20 * 2
  /\ clock_steps = 0
  /\ inbox = <<>>
  /\ scan_start_time = [c \in Containers |-> Nothing]
  /\ frame = [c \in Containers |-> IdleFrame]
  /\ runs = 0
  /\ rendered = {}
  /\ sent = {}
  /\ uploaded = {}
  /\ lookup = Nothing

Init ==
  /\ InitEnv
  /\ store \in InitialStores

\* Twelve hours pass.  No step of lambda_handler reads the clock, so the
\* clock is advanced between invocations only.
Tick ==
  /\ \A c \in Containers : ~Active(c)
  /\ clock_steps < MaxClock
  /\ now' = now + (TicksPerDay \div 2)
  /\ clock_steps' = clock_steps + 1
  /\ UNCHANGED <<inbox, store, scan_start_time, frame, runs, rendered, sent, uploaded, lookup>>

\* A message arrives in the inbox, unread, dated now.
Arrive(sender) ==
  /\ Len(inbox) < MaxMsgs
  /\ inbox' = Append(inbox, [From |-> sender, date |-> now, seen |-> FALSE])
  /\ UNCHANGED <<now, clock_steps, store, scan_start_time, frame, runs, rendered, sent, uploaded, lookup>>

\* lambda_function.py is imported in container c: EmailProcessor.__init__
\* fixes scan_start_time at 00:00 UTC of the day of the import.
ColdStart(c) ==
  /\ ~Active(c)
  /\ scan_start_time[c] = Nothing
  /\ scan_start_time' = [scan_start_time EXCEPT ![c] = Some(StartOfDay(now))]
  /\ UNCHANGED <<now, clock_steps, inbox, store, frame, runs, rendered, sent, uploaded, lookup>>

\* ------------------------------------------ lambda_function.lambda_handler
\* An exception that is noted and then ignored: the handler carries on.
RaiseAndCarryOn(f, error) == [f EXCEPT !.result.raised = error]

\* An exception leaves lambda_handler: the invocation ends without a result.
Raise(f, error) == [f EXCEPT !.pc = "idle", !.result.raised = error]

\* The send loop: zip(output_invoice_paths, invoice_params_list).
AfterDeliver(f) ==
  IF f.delivered < Len(f.output_invoice_paths) /\ f.delivered < Len(f.invoice_params_list)
  THEN [f EXCEPT !.pc = "send"]
  ELSE [f EXCEPT !.pc = "return"]

\* The render loop over invoice_params_list, then the send loop.
AfterRender(f) ==
  IF Len(f.output_invoice_paths) < Len(f.invoice_params_list)
  THEN [f EXCEPT !.pc = "render"]
  ELSE AfterDeliver(f)

\* The extraction loop over scanned_emails, then the render loop.
AfterClassify(f) ==
  IF Len(f.verdicts) < Len(f.scanned_emails)
  THEN [f EXCEPT !.pc = "classify"]
  ELSE AfterRender(f)

\* The loop body without the is_invoice test.
ClassifyStepUnconditional(f, invoice_params) ==
  LET result == f.scanned_emails[Len(f.verdicts) + 1]
  IN [f EXCEPT
        !.verdicts = Append(@, invoice_params),
        !.invoice_params_list =
           Append(@, [ invoice_number |-> f.next_invoice_number,
                       amount |-> invoice_params.invoice_amount,
                       email_params |-> result ]),
        !.next_invoice_number = @ + 1]

\* The loop body without the increment of next_invoice_number.
ClassifyStepNoIncrement(f, invoice_params) ==
  LET result == f.scanned_emails[Len(f.verdicts) + 1]
  IN IF invoice_params.is_invoice
     THEN [f EXCEPT
             !.verdicts = Append(@, invoice_params),
             !.invoice_params_list =
                Append(@, [ invoice_number |-> f.next_invoice_number,
                            amount |-> invoice_params.invoice_amount,
                            email_params |-> result ])]
     ELSE [f EXCEPT !.verdicts = Append(@, invoice_params)]

\* One pass of the extraction loop, given the oracle's answer for the email.
ClassifyStep(f, invoice_params) ==
  LET result == f.scanned_emails[Len(f.verdicts) + 1]
  IN IF invoice_params.is_invoice
     THEN [f EXCEPT
             !.verdicts = Append(@, invoice_params),
             !.invoice_params_list =
                Append(@, [ invoice_number |-> f.next_invoice_number,
                            amount |-> invoice_params.invoice_amount,
                            email_params |-> result ]),
             !.next_invoice_number = @ + 1]
     ELSE [f EXCEPT !.verdicts = Append(@, invoice_params)]

\* The date argument of generate_invoice and of the reply's subject and body.
InvoiceDate(invoice_params) == invoice_params.email_params.date

\* filename = invoice_path.split("/tmp/")[-1]; key f"cellstrat_invoices/{filename}"
ArchiveKey(invoice_path) == KeyDir \o SplitLast(invoice_path, TmpDir)

\* lambda_handler is invoked in container c and scans the inbox.
Begin(c) ==
  /\ ~Active(c)
  /\ scan_start_time[c] # Nothing
  /\ runs < MaxRuns
  /\ LET scan == scan_emails(inbox, scan_start_time[c][1])
     IN /\ inbox' = scan.box
        /\ frame' = [frame EXCEPT ![c] =
                       [IdleFrame EXCEPT !.pc = "number", !.run = runs + 1,
                                         !.invoked_at = now,
                                         !.overlapped =
                                            {frame[d].run : d \in {x \in Containers : Active(x)}},
                                         !.scanned_emails = scan.matching]]
  /\ runs' = runs + 1
  /\ UNCHANGED <<now, clock_steps, store, scan_start_time, rendered, sent, uploaded, lookup>>

\* An invocation that starts while no other invocation is in progress.
Invoke(c) ==
  /\ \A d \in Containers : ~Active(d)
  /\ Begin(c)

\* An invocation that starts while another one is in progress.
InvokeOverlapping(c) ==
  /\ \E d \in Containers : Active(d)
  /\ Begin(c)

\* next_invoice_number = s3_utils.get_last_invoice_number() + 1
GetNumber(c) ==
  /\ frame[c].pc = "number"
  /\ LET last == get_last_invoice_number(store)
     IN frame' = [frame EXCEPT ![c] =
                    IF last.raised # "" THEN Raise(@, last.raised)
                    ELSE AfterClassify([@ EXCEPT !.last = last.value,
                                                 !.next_invoice_number = last.value + 1])]
  /\ UNCHANGED <<now, clock_steps, inbox, store, scan_start_time, runs, rendered, sent, uploaded, lookup>>

\* extract_invoice_params answers for the next scanned email.
Classify(c) ==
  /\ frame[c].pc = "classify"
  /\ \E invoice_params \in OracleAnswers :
        frame' = [frame EXCEPT ![c] = AfterClassify(ClassifyStep(@, invoice_params))]
  /\ UNCHANGED <<now, clock_steps, inbox, store, scan_start_time, runs, rendered, sent, uploaded, lookup>>

\* The extraction service fails or answers off schema.
ClassifyFails(c) ==
  /\ frame[c].pc = "classify"
  /\ frame' = [frame EXCEPT ![c] = Raise(@, "OracleError")]
  /\ UNCHANGED <<now, clock_steps, inbox, store, scan_start_time, runs, rendered, sent, uploaded, lookup>>

\* generate_invoice returns the path of the next invoice's PDF.
Render(c) ==
  /\ frame[c].pc = "render"
  /\ LET f == frame[c]
         invoice_params == f.invoice_params_list[Len(f.output_invoice_paths) + 1]
         invoice_path == generate_invoice(invoice_params.invoice_number)
     IN /\ rendered' = rendered \cup
              { [ run |-> f.run, invoice_number |-> invoice_params.invoice_number,
                  date |-> InvoiceDate(invoice_params), amount |-> invoice_params.amount,
                  msg |-> invoice_params.email_params.body_text,
                  path |-> invoice_path ] }
        /\ frame' = [frame EXCEPT ![c] =
              AfterRender([@ EXCEPT !.output_invoice_paths = Append(@, invoice_path)])]
  /\ UNCHANGED <<now, clock_steps, inbox, store, scan_start_time, runs, sent, uploaded, lookup>>

\* The template or the PDF conversion fails.
RenderFails(c) ==
  /\ frame[c].pc = "render"
  /\ frame' = [frame EXCEPT ![c] = Raise(@, "RenderError")]
  /\ UNCHANGED <<now, clock_steps, inbox, store, scan_start_time, runs, rendered, sent, uploaded, lookup>>

\* send_invoice_email hands the reply, with the PDF attached, to SMTP.
Send(c) ==
  /\ frame[c].pc = "send"
  /\ LET f == frame[c]
         invoice_path == f.output_invoice_paths[f.delivered + 1]
         invoice_params == f.invoice_params_list[f.delivered + 1]
     IN sent' = sent \cup
           { [ run |-> f.run, to |-> invoice_params.email_params.from_email,
               invoice_number |-> invoice_params.invoice_number,
               invoice_date |-> InvoiceDate(invoice_params),
               invoice_amount |-> invoice_params.amount,
               msg |-> invoice_params.email_params.body_text,
               attachment |-> SplitLast(invoice_path, <<"/">>) ] }
  /\ frame' = [frame EXCEPT ![c].pc = "upload"]
  /\ UNCHANGED <<now, clock_steps, inbox, store, scan_start_time, runs, rendered, uploaded, lookup>>

\* The SMTP session fails.
SendFails(c) ==
  /\ frame[c].pc = "send"
  /\ frame' = [frame EXCEPT ![c] = Raise(@, "SendError")]
  /\ UNCHANGED <<now, clock_steps, inbox, store, scan_start_time, runs, rendered, sent, uploaded, lookup>>

\* An upload whose failure is not caught: the exception leaves the handler.
UploadRaises(c) ==
  /\ frame[c].pc = "upload"
  /\ \E put_ok \in BOOLEAN :
        LET f == frame[c]
            invoice_path == f.output_invoice_paths[f.delivered + 1]
            invoice_params == f.invoice_params_list[f.delivered + 1]
            s3_key == ArchiveKey(invoice_path)
            up == upload_file(store, s3_key, put_ok)
        IN /\ store' = up.objects
           /\ uploaded' = uploaded \cup
                 { [ run |-> f.run, key |-> s3_key,
                     invoice_number |-> invoice_params.invoice_number,
                     msg |-> invoice_params.email_params.body_text,
                     ok |-> up.ok ] }
           /\ frame' = [frame EXCEPT ![c] =
                 IF up.ok THEN AfterDeliver([@ EXCEPT !.delivered = @ + 1])
                 ELSE Raise(@, "UploadError")]
  /\ UNCHANGED <<now, clock_steps, inbox, scan_start_time, runs, rendered, sent, lookup>>

\* s3_utils.upload_file for the invoice just sent; its result is not looked at.
Upload(c) ==
  /\ frame[c].pc = "upload"
  /\ \E put_ok \in BOOLEAN :
        LET f == frame[c]
            invoice_path == f.output_invoice_paths[f.delivered + 1]
            invoice_params == f.invoice_params_list[f.delivered + 1]
            s3_key == ArchiveKey(invoice_path)
            up == upload_file(store, s3_key, put_ok)
        IN /\ store' = up.objects
           /\ uploaded' = uploaded \cup
                 { [ run |-> f.run, key |-> s3_key,
                     invoice_number |-> invoice_params.invoice_number,
                     msg |-> invoice_params.email_params.body_text,
                     ok |-> up.ok ] }
           /\ frame' = [frame EXCEPT ![c] = AfterDeliver([@ EXCEPT !.delivered = @ + 1])]
  /\ UNCHANGED <<now, clock_steps, inbox, scan_start_time, runs, rendered, sent, lookup>>

\* return {"statusCode": 200, "body": ... len(invoice_params_list) ...}
Return(c) ==
  /\ frame[c].pc = "return"
  /\ frame' = [frame EXCEPT ![c].pc = "idle",
                            ![c].result = [ @ EXCEPT
                                            !.statusCode = 200,
                                            !.processed = Len(frame[c].invoice_params_list) ]]
  /\ UNCHANGED <<now, clock_steps, inbox, store, scan_start_time, runs, rendered, sent, uploaded, lookup>>

Step(c) ==
  \/ GetNumber(c)
  \/ Classify(c)
  \/ ClassifyFails(c)
  \/ Render(c)
  \/ RenderFails(c)
  \/ Send(c)
  \/ SendFails(c)
  \/ Upload(c)
  \/ Return(c)

\* Mail that arrives while no invocation is in progress.
ArriveBetweenRuns(sender) ==
  /\ \A c \in Containers : ~Active(c)
  /\ Arrive(sender)

\* Invocations one after the other, all served by the one warm container.
Next ==
  \/ Tick
  \/ \E sender \in Senders : ArriveBetweenRuns(sender)
  \/ ColdStart(WarmContainer)
  \/ Invoke(WarmContainer)
  \/ Step(WarmContainer)

Spec == Init /\ [][Next]_vars

\* Invocations that may overlap, each in a container of its own, with mail
\* arriving at any moment.
NextConcurrent ==
  \/ Tick
  \/ \E sender \in Senders : Arrive(sender)
  \/ \E c \in Containers : ColdStart(c)
  \/ \E c \in Containers : Invoke(c)
  \/ \E c \in Containers : InvokeOverlapping(c)
  \/ \E c \in Containers : Step(c)

SpecConcurrent == Init /\ [][NextConcurrent]_vars

\* ------------------------------------------- the numbering lookup on its own
\* Characters of the names of the objects put under the listing prefix.
NameChars == {"1", "2", " ", "."}

\* Names as the renderer writes them and as a person might: "007.pdf",
\* "012.pdf", "abc.pdf", "9.pdf", "10.pdf", "1a.pdf", "1 2.pdf", "2.1.pdf"
\* and "11".
WrittenNames ==
  { <<"0", "0", "7">> \o PdfExt, <<"0", "1", "2">> \o PdfExt,
    <<"a", "b", "c">> \o PdfExt, <<"9">> \o PdfExt,
    <<"1", "0">> \o PdfExt, <<"1", "a">> \o PdfExt,
    <<"1", " ", "2">> \o PdfExt, <<"2", ".", "1">> \o PdfExt,
    <<"1", "1">> }

\* Every short name over NameChars, and the written ones.
ObjectNames == WrittenNames \cup UNION {[1..n -> NameChars] : n \in 0..MaxSuffixLen}

InitListing ==
  /\ InitEnv
  /\ store = {}

\* Some object is put in the bucket under the listing prefix.
PutObject(name) ==
  /\ lookup = Nothing
  /\ Cardinality(store) < MaxKeys
  /\ store' = store \cup {ListPrefix \o name}
  /\ UNCHANGED <<now, clock_steps, inbox, scan_start_time, frame, runs, rendered, sent, uploaded, lookup>>

\* s3_utils.get_last_invoice_number() is called on the bucket as it is.
Lookup ==
  /\ lookup = Nothing
  /\ lookup' = Some(get_last_invoice_number(store))
  /\ UNCHANGED <<now, clock_steps, inbox, store, scan_start_time, frame, runs, rendered, sent, uploaded>>

NextListing ==
  \/ \E name \in ObjectNames : PutObject(name)
  \/ Lookup

SpecListing == InitListing /\ [][NextListing]_vars

\* ----------------------------------------------------------------- claims
\* Emails among the first j - 1 scanned ones that the oracle took for
\* invoice requests.
InvoicesBefore(f, j) ==
  Cardinality({i \in 1..(j - 1) : i <= Len(f.verdicts) /\ f.verdicts[i].is_invoice})

\* The entries of invoice_params_list made for the j-th scanned email.
EntriesFor(f, j) ==
  {k \in DOMAIN f.invoice_params_list :
      f.invoice_params_list[k].email_params.body_text = f.scanned_emails[j].body_text}

\* C1: an email the oracle does not take for an invoice request gets no entry
\* in invoice_params_list, is never rendered, sent or archived, and consumes
\* no number: the next invoice email in scan order is given the number the
\* skipped email would have been given (last + 1 + the invoices before it).
C1_SkippedEmailLeavesNoTrace ==
  \A c \in Containers :
    LET f == frame[c]
    IN \A j \in DOMAIN f.verdicts :
         ~f.verdicts[j].is_invoice =>
           LET msg == f.scanned_emails[j].body_text
           IN /\ EntriesFor(f, j) = {}
              /\ \A r \in rendered : ~(r.run = f.run /\ r.msg = msg)
              /\ \A r \in sent : ~(r.run = f.run /\ r.msg = msg)
              /\ \A r \in uploaded : ~(r.run = f.run /\ r.msg = msg)
              /\ \A k \in (j + 1)..Len(f.verdicts) :
                   ( /\ f.verdicts[k].is_invoice
                     /\ \A i \in (j + 1)..(k - 1) : ~f.verdicts[i].is_invoice )
                   => \E e \in EntriesFor(f, k) :
                        f.invoice_params_list[e].invoice_number
                          = f.last + 1 + InvoicesBefore(f, j)

\* A run skipped its first email, took the second for an invoice request and
\* has sent that invoice.
C1_Witness ==
  \E c \in Containers :
    LET f == frame[c]
    IN /\ Len(f.verdicts) = 2
       /\ ~f.verdicts[1].is_invoice
       /\ f.verdicts[2].is_invoice
       /\ \E r \in sent : r.run = f.run /\ r.msg = f.scanned_emails[2].body_text

\* C2: with L the number read from the store, the k-th email taken for an
\* invoice request, in scan order, is assigned L + k; the numbers of a run
\* are therefore distinct, consecutive and increasing in processing order.
C2_KthInvoiceGetsLastPlusK ==
  \A c \in Containers :
    LET f == frame[c]
    IN /\ Len(f.invoice_params_list) = InvoicesBefore(f, Len(f.verdicts) + 1)
       /\ \A j \in DOMAIN f.verdicts :
            f.verdicts[j].is_invoice =>
              LET k == InvoicesBefore(f, j) + 1
              IN /\ k \in DOMAIN f.invoice_params_list
                 /\ f.invoice_params_list[k].email_params = f.scanned_emails[j]
                 /\ f.invoice_params_list[k].invoice_number = f.last + k
       /\ \A k1, k2 \in DOMAIN f.invoice_params_list :
            k1 < k2 => f.invoice_params_list[k1].invoice_number
                         < f.invoice_params_list[k2].invoice_number

\* A run has assigned numbers to two invoice requests and returned.
C2_Witness ==
  \E c \in Containers :
    /\ Len(frame[c].invoice_params_list) = 2
    /\ frame[c].last = 12
    /\ frame[c].result.statusCode = 200

\* C3: over runs that follow one another, a number emailed in an earlier run
\* is below every number emailed in a later run, so it is never given to a
\* different invoice.
C3_NumbersIncreaseAcrossRuns ==
  \A s1, s2 \in sent :
    s1.run < s2.run => s1.invoice_number < s2.invoice_number

\* C4: two runs that overlap in time, each with its own emails, never assign
\* one invoice number to two different invoices.
C4_OverlappingRunsAssignDistinctNumbers ==
  \A c, d \in Containers :
    (c # d /\ frame[d].run \in frame[c].overlapped) =>
      \A k1 \in DOMAIN frame[c].invoice_params_list :
        \A k2 \in DOMAIN frame[d].invoice_params_list :
          frame[c].invoice_params_list[k1].email_params.body_text
              # frame[d].invoice_params_list[k2].email_params.body_text
            => frame[c].invoice_params_list[k1].invoice_number
                 # frame[d].invoice_params_list[k2].invoice_number

\* The numbers int() reads out of the keys whose trailing token parses.
ParsedNumbers(objects) ==
  {IntOf(NumberToken(k)) : k \in {f \in objects : IntParses(NumberToken(f))}}

\* C5: when some listed key parses, get_last_invoice_number() + 1 is one more
\* than the numeric maximum of the parsed numbers, nothing is raised, and the
\* keys that do not parse change nothing: the lookup answers as it does on
\* the parseable keys alone.
C5_NextIsNumericMaxPlusOne ==
  (lookup # Nothing /\ ParsedNumbers(store) # {}) =>
     /\ lookup[1].raised = ""
     /\ \E m \in ParsedNumbers(store) :
          /\ \A n \in ParsedNumbers(store) : n <= m
          /\ lookup[1].value + 1 = m + 1
     /\ lookup[1] = get_last_invoice_number({k \in store : IntParses(NumberToken(k))})

\* The lookup ran on keys that read 7 and 12 and on a key that does not
\* parse, and answered 12.
C5_Witness ==
  /\ lookup # Nothing
  /\ ParsedNumbers(store) = {7, 12}
  /\ \E k \in store : ~IntParses(NumberToken(k))
  /\ lookup[1].value = 12

\* C6: a run that finds no parseable key in the store fails with IndexError
\* at the numbering lookup: it does not number from 1, returns no result, and
\* renders, sends and archives nothing.  (The store only grows, so a store
\* without a parseable key now had none at the lookup.)
C6_NoParseableKeyFailsTheRun ==
  \A c \in Containers :
    LET f == frame[c]
    IN (f.run > 0 /\ f.pc # "number" /\ ParsedNumbers(ListedKeys(store)) = {}) =>
         /\ f.pc = "idle"
         /\ f.result.raised = "IndexError"
         /\ f.result.statusCode = 0
         /\ f.next_invoice_number = 0
         /\ f.invoice_params_list = <<>>
         /\ \A r \in rendered : r.run # f.run
         /\ \A r \in sent : r.run # f.run
         /\ \A r \in uploaded : r.run # f.run

\* A run scanned an email, found only a malformed key in the store and failed.
C6_Witness ==
  \E c \in Containers :
    /\ frame[c].result.raised = "IndexError"
    /\ Len(frame[c].scanned_emails) > 0
    /\ store # {}

\* C7: no run returns from its scan a message received before 00:00 UTC of
\* the day the run executes, whichever day its container was imported.
C7_NothingBeforeTheRunsStartOfDay ==
  \A c \in Containers :
    \A j \in DOMAIN frame[c].scanned_emails :
      inbox[frame[c].scanned_emails[j].body_text].date
        >= StartOfDay(frame[c].invoked_at)

\* The sender's address, compared without regard to case, is one of the
\* addresses configured in APPROVED_SENDERS.
SenderIsConfigured(sender) ==
  \E i \in DOMAIN ApprovedSendersEnv :
    Lower(Strip(ApprovedSendersEnv[i])) = Lower(sender)

\* C8: a scan returns no message whose sender is, case set aside, outside the
\* approved senders; it skips such messages without failing and still returns,
\* in order, every other message the search found that is not older than
\* scan_start_time.
C8_OnlyApprovedSendersScanned ==
  [][ \A c \in Containers :
        (frame[c].pc = "idle" /\ frame'[c].pc # "idle") =>
          LET start == scan_start_time[c][1]
              got == frame'[c].scanned_emails
              hits == {i \in DOMAIN inbox :
                         ~inbox[i].seen /\ DayOf(inbox[i].date) >= DayOf(start)}
          IN /\ \A j \in DOMAIN got : SenderIsConfigured(inbox[got[j].body_text].From)
             /\ \A j \in DOMAIN got : got[j].from_email = Lower(inbox[got[j].body_text].From)
             /\ {got[j].body_text : j \in DOMAIN got}
                  = {i \in hits : SenderIsConfigured(inbox[i].From) /\ inbox[i].date >= start}
             /\ \A j1, j2 \in DOMAIN got : j1 < j2 => got[j1].body_text < got[j2].body_text
             /\ frame'[c].result.raised = ""
    ]_vars

\* A scan met a message from a sender outside the list, skipped it and
\* returned the approved message that followed it.
C8_Witness ==
  \E c \in Containers :
    /\ Len(inbox) = 2
    /\ ~SenderIsConfigured(inbox[1].From)
    /\ inbox[1].seen
    /\ Len(frame[c].scanned_emails) = 1
    /\ frame[c].scanned_emails[1].body_text = 2
    /\ inbox[2].From # frame[c].scanned_emails[1].from_email

\* The date the claim expects on the invoice of the j-th scanned email.
ExpectedDate(f, j) ==
  IF f.verdicts[j].invoice_date # Nothing
  THEN f.verdicts[j].invoice_date[1]
  ELSE f.scanned_emails[j].date

\* C9: the date passed to the renderer and written in the reply is the date
\* the oracle extracted when it states one, and the email's received date
\* (IST) only when the oracle leaves invoice_date unset.
C9_StatedDateIsUsed ==
  \A c \in Containers :
    LET f == frame[c]
    IN \A j \in DOMAIN f.verdicts :
         /\ \A r \in rendered :
              (r.run = f.run /\ r.msg = f.scanned_emails[j].body_text)
                => r.date = ExpectedDate(f, j)
         /\ \A r \in sent :
              (r.run = f.run /\ r.msg = f.scanned_emails[j].body_text)
                => r.invoice_date = ExpectedDate(f, j)

\* Invoices of run f whose reply has been handed to SMTP.
SentOf(f) == {r.invoice_number : r \in {x \in sent : x.run = f.run}}

\* Invoices of run f for which upload_file has been called.
UploadedOf(f) == {r.invoice_number : r \in {x \in uploaded : x.run = f.run}}

\* The numbers of the first n entries of invoice_params_list.
FirstNumbers(f, n) == {f.invoice_params_list[k].invoice_number : k \in 1..n}

\* C10: a render or delivery failure ends the run with the error and no 200
\* result, and nothing is delivered or archived after it.  A render failure
\* leaves the whole run unsent and unarchived (every render precedes every
\* send); a delivery failure at invoice i leaves exactly invoices 1..i-1 sent
\* and archived-or-attempted, and invoice i and its successors untouched.
C10_FailureAbortsTheRest ==
  \A c \in Containers :
    LET f == frame[c]
    IN /\ (SentOf(f) # {} => Len(f.output_invoice_paths) = Len(f.invoice_params_list))
       /\ f.result.raised = "RenderError" =>
            /\ f.pc = "idle" /\ f.result.statusCode = 0
            /\ SentOf(f) = {} /\ UploadedOf(f) = {}
       /\ f.result.raised = "SendError" =>
            /\ f.pc = "idle" /\ f.result.statusCode = 0
            /\ f.delivered < Len(f.invoice_params_list)
            /\ SentOf(f) = FirstNumbers(f, f.delivered)
            /\ UploadedOf(f) = FirstNumbers(f, f.delivered)

\* The second delivery of a run failed after the first invoice had been sent
\* and archived.
C10_Witness ==
  \E c \in Containers :
    LET f == frame[c]
    IN /\ f.result.raised = "SendError"
       /\ Len(f.invoice_params_list) = 2
       /\ f.delivered = 1
       /\ \E r \in uploaded : r.run = f.run /\ r.ok

\* Upload attempts of run f that failed.
FailedUploadsOf(f) == {r \in uploaded : r.run = f.run /\ ~r.ok}

\* C11: a failed archive upload raises nothing and stops nothing.  The run
\* that met it is still going, or has returned 200, or was ended by the
\* failure of a later delivery (never by the upload); the failed invoice
\* counts as delivered, and a run that returns 200 has sent
\* every invoice, attempted every upload and reports as its count the number
\* of emails taken for invoice requests, failed uploads included.
C11_UploadFailureIsNotFatal ==
  \A c \in Containers :
    LET f == frame[c]
        n == Len(f.invoice_params_list)
    IN /\ \A r \in FailedUploadsOf(f) :
            /\ f.result.raised \in {"", "SendError"}
            /\ r.invoice_number \in FirstNumbers(f, f.delivered)
            /\ f.pc = "idle" =>
                 \/ f.result.statusCode = 200
                 \/ /\ f.result.raised = "SendError"
                    /\ r.invoice_number \in SentOf(f)
       /\ f.result.statusCode = 200 =>
            /\ f.result.raised = ""
            /\ f.result.processed = InvoicesBefore(f, Len(f.verdicts) + 1)
            /\ f.result.processed = n
            /\ SentOf(f) = FirstNumbers(f, n)
            /\ UploadedOf(f) = FirstNumbers(f, n)

\* The first upload of a run failed; the run went on to send and archive its
\* second invoice and returned 200 with a count of 2.
C11_Witness ==
  \E c \in Containers :
    LET f == frame[c]
    IN /\ Len(f.invoice_params_list) = 2
       /\ \E r \in FailedUploadsOf(f) :
            r.invoice_number = f.invoice_params_list[1].invoice_number
       /\ \E r \in uploaded :
            /\ r.run = f.run /\ r.ok
            /\ r.invoice_number = f.invoice_params_list[2].invoice_number
       /\ f.result.statusCode = 200
       /\ f.result.processed = 2

\* Upload attempts that put the object in the bucket.
Archived == {r \in uploaded : r.ok}

\* C12: every archived invoice was emailed before, to the sender of the email
\* it was made from and under the number assigned to that email; its key is
\* "cellstrat_invoices/Bhavesh Invoice NNN.pdf" with NNN that number padded
\* with zeros to three digits, and the numbering rule reads the same number
\* back out of the key.  After a run that returned with every upload done,
\* the lookup answers the last number the run assigned.
C12_ArchivedWasEmailedUnderItsNumber ==
  /\ \A u \in Archived :
       /\ \E r \in sent :
            /\ r.run = u.run /\ r.msg = u.msg
            /\ r.invoice_number = u.invoice_number
            /\ r.to = Lower(inbox[u.msg].From)
            /\ KeyDir \o r.attachment = u.key
       /\ u.key = KeyDir \o FileStem \o ZeroPad(DecimalOf(u.invoice_number), 3) \o PdfExt
       /\ Len(u.key) >= Len(KeyDir) + Len(FileStem) + 3 + Len(PdfExt)
       /\ u.key \in store
       /\ IntParses(NumberToken(u.key))
       /\ IntOf(NumberToken(u.key)) = u.invoice_number
       /\ \A c \in Containers :
            frame[c].run = u.run =>
              \E k \in DOMAIN frame[c].invoice_params_list :
                /\ frame[c].invoice_params_list[k].invoice_number = u.invoice_number
                /\ frame[c].invoice_params_list[k].email_params.body_text = u.msg
  /\ \A c \in Containers :
       LET f == frame[c]
           n == Len(f.invoice_params_list)
       IN (f.run = runs /\ f.result.statusCode = 200 /\ n > 0 /\ FailedUploadsOf(f) = {}) =>
            /\ get_last_invoice_number(store).raised = ""
            /\ get_last_invoice_number(store).value = f.invoice_params_list[n].invoice_number

\* A run archived both of its invoices, 013 and 014, and returned.
C12_Witness ==
  \E c \in Containers :
    LET f == frame[c]
    IN /\ f.result.statusCode = 200
       /\ Len(f.invoice_params_list) = 2
       /\ FailedUploadsOf(f) = {}
       /\ {u.invoice_number : u \in {x \in Archived : x.run = f.run}} = {13, 14}
       /\ get_last_invoice_number(store).value = 14
====
